---- MODULE Spec2Model ----
(***************************************************************************)
(* Model of app.py, the Process Efficiency Analysis dashboard script.      *)
(*                                                                         *)
(* The script is one straight line of statements: read the spreadsheet,    *)
(* clean it, derive columns, render charts, tables and metrics.  A state   *)
(* of the model is the script's position (pc), the module-level names it   *)
(* has bound so far (data, high_delay, rework_tasks, rework_count,         *)
(* issue_flagged, issue_count) and the elements written to the page.       *)
(*                                                                         *)
(* A DataFrame is a record [columns, rows]; a row maps each column name    *)
(* and "index" (the pandas index label) to a cell.  A cell is a record     *)
(* [k, n, d, s]: k is the kind ("nan", "nat", "num", "str", "ts", "bool"), *)
(* n/d an exact rational (num), n seconds since the epoch (ts), n in       *)
(* {0,1} (bool), s the text (str).  Numbers are exact rationals; float     *)
(* rounding is not modelled.  Charts are modelled by the columns they are  *)
(* handed; the chart library's own validation is not modelled.  Columns    *)
(* that are only passed through to charts (Task_Name, Status,              *)
(* Service_Type, Customer_Type, System_Used) are left out of the rows.     *)
(***************************************************************************)
EXTENDS Integers, Sequences, FiniteSets, TLC

VARIABLES file, data, pc, reads, high_delay, rework_tasks, rework_count,
          issue_flagged, issue_count, page, ran

vars == <<file, data, pc, reads, high_delay, rework_tasks, rework_count,
          issue_flagged, issue_count, page, ran>>

(***************************************************************************)
(* Bounds of the input tables.                                             *)
(***************************************************************************)
MaxRows == 3
MaxDelayRows == 4
MaxWideRows == 2

(***************************************************************************)
(* Cells.                                                                  *)
(***************************************************************************)
NaN == [k |-> "nan", n |-> 0, d |-> 1, s |-> ""]
NaT == [k |-> "nat", n |-> 0, d |-> 1, s |-> ""]
Num(x) == [k |-> "num", n |-> x, d |-> 1, s |-> ""]
Str(t) == [k |-> "str", n |-> 0, d |-> 1, s |-> t]
Ts(t) == [k |-> "ts", n |-> t, d |-> 1, s |-> ""]
Bool(b) == [k |-> "bool", n |-> IF b THEN 1 ELSE 0, d |-> 1, s |-> ""]

isna(c) == c.k \in {"nan", "nat"}

Abs(x) == IF x < 0 THEN -x ELSE x

RECURSIVE GCD(_, _)
GCD(a, b) == IF b = 0 THEN a ELSE GCD(b, a % b)

\* the rational x/y (y # 0) in lowest terms with a positive denominator
Frac(x, y) ==
    LET g == GCD(Abs(x), Abs(y))
        sg == IF y < 0 THEN -1 ELSE 1
    IN  [k |-> "num", n |-> (sg * x) \div g, d |-> Abs(y) \div g, s |-> ""]

Lt(a, b) == a.n * b.d < b.n * a.d
Add(a, b) == Frac(a.n * b.d + b.n * a.d, a.d * b.d)
Sub(a, b) == Frac(a.n * b.d - b.n * a.d, a.d * b.d)
Scale(a, x, y) == Frac(a.n * x, a.d * y)

(***************************************************************************)
(* DataFrames.                                                             *)
(***************************************************************************)
NoFrame == [columns |-> {}, rows |-> <<>>]

InputColumns == {"Process_ID", "Task_ID", "Start_Time", "End_Time",
                 "Cost (USD)", "Resource", "Delay (minutes)", "Rework_Flag",
                 "Role", "Issue_Flag", "Product_Category"}

Range(f) == {f[i] : i \in DOMAIN f}

\* the rows at which the boolean mask holds, in order
RECURSIVE Keep(_, _)
Keep(rows, mask) ==
    IF rows = <<>> THEN <<>>
    ELSE (IF Head(mask) THEN <<Head(rows)>> ELSE <<>>)
           \o Keep(Tail(rows), Tail(mask))

\* frame[mask], mask a boolean Series over the rows of the frame
Filter(frame, mask) ==
    [columns |-> frame.columns, rows |-> Keep(frame.rows, mask)]

\* frame[[cols]]: the listed columns of every row
Proj(frame, cols) ==
    [columns |-> cols,
     rows |-> [i \in 1..Len(frame.rows) |->
                 [c \in cols \cup {"index"} |-> frame.rows[i][c]]]]

\* frame[col] = series, whether col is new or already there
Assign(frame, col, series) ==
    [columns |-> frame.columns \cup {col},
     rows |-> [i \in 1..Len(frame.rows) |->
                 (col :> series[i]) @@ frame.rows[i]]]

\* the present values of a column, in row order
Present(frame, col) ==
    LET P == SelectSeq(frame.rows, LAMBDA r : ~isna(r[col]))
    IN  [i \in 1..Len(P) |-> P[i][col]]

RECURSIVE Insert(_, _)
Insert(sorted, x) ==
    IF sorted = <<>> THEN <<x>>
    ELSE IF Lt(x, Head(sorted)) THEN <<x>> \o sorted
    ELSE <<Head(sorted)>> \o Insert(Tail(sorted), x)

RECURSIVE Sorted(_)
Sorted(xs) == IF xs = <<>> THEN <<>> ELSE Insert(Sorted(Tail(xs)), Head(xs))

RECURSIVE Sum(_)
Sum(xs) == IF xs = <<>> THEN Num(0) ELSE Add(Head(xs), Sum(Tail(xs)))

\* dropna with how='all': a row goes only when every listed value is missing
dropna_all(frame, subset) ==
    Filter(frame, [i \in 1..Len(frame.rows) |->
                     \E c \in subset : ~isna(frame.rows[i][c])])

\* DataFrame.dropna(subset=...)
dropna(frame, subset) ==
    Filter(frame, [i \in 1..Len(frame.rows) |->
                     \A c \in subset : ~isna(frame.rows[i][c])])

\* a median that takes the lower middle value and never averages
median_low(frame, col) ==
    LET xs == Sorted(Present(frame, col))
        n == Len(xs)
    IN  IF n = 0 THEN NaN ELSE xs[(n + 1) \div 2]

\* Series.median(): skips missing values, NaN when none is present
median(frame, col) ==
    LET xs == Sorted(Present(frame, col))
        n == Len(xs)
    IN  IF n = 0 THEN NaN
        ELSE IF n % 2 = 1 THEN xs[(n + 1) \div 2]
        ELSE Scale(Add(xs[n \div 2], xs[n \div 2 + 1]), 1, 2)

\* frame[col].fillna(value)
fillna(frame, col, value) ==
    [i \in 1..Len(frame.rows) |->
        IF isna(frame.rows[i][col]) THEN value ELSE frame.rows[i][col]]

\* text that the datetime parser accepts, with the seconds since the epoch
ParseDatetime(t) ==
    CASE t = "1970-01-01 00:00:00" -> 0
      [] t = "1970-01-01 00:01:30" -> 90
      [] OTHER -> -1

\* a conversion that hands text back when it is no date
to_datetime_keep(c) ==
    CASE c.k = "ts" -> c
      [] c.k = "str" -> IF ParseDatetime(c.s) >= 0 THEN Ts(ParseDatetime(c.s))
                        ELSE c
      [] OTHER -> NaT

\* pd.to_datetime(cell, errors='coerce')
to_datetime(c) ==
    CASE c.k = "ts" -> c
      [] c.k = "str" -> IF ParseDatetime(c.s) >= 0 THEN Ts(ParseDatetime(c.s))
                        ELSE NaT
      [] OTHER -> NaT

\* the difference taken the wrong way round
total_minutes_swapped(end, start) ==
    IF isna(end) \/ isna(start) THEN NaN ELSE Frac(start.n - end.n, 60)

\* (end - start).dt.total_seconds() / 60
total_minutes(end, start) ==
    IF isna(end) \/ isna(start) THEN NaN ELSE Frac(end.n - start.n, 60)

\* Series > x, Series == text: a comparison with a missing value is False
gt(c, x) == c.k = "num" /\ Lt(x, c)
eq_str(c, t) == c.k = "str" /\ c.s = t

\* a quantile that takes the higher neighbour and never interpolates
quantile_higher(frame, col, qn, qd) ==
    LET xs == Sorted(Present(frame, col))
        n == Len(xs)
        i == ((n - 1) * qn) \div qd
        r == ((n - 1) * qn) % qd
    IN  IF n = 0 THEN NaN
        ELSE IF r = 0 THEN xs[i + 1]
        ELSE xs[i + 2]

\* Series.quantile(q) for q = qn/qd, linear interpolation
quantile(frame, col, qn, qd) ==
    LET xs == Sorted(Present(frame, col))
        n == Len(xs)
        i == ((n - 1) * qn) \div qd
        r == ((n - 1) * qn) % qd
    IN  IF n = 0 THEN NaN
        ELSE IF r = 0 THEN xs[i + 1]
        ELSE Add(xs[i + 1], Scale(Sub(xs[i + 2], xs[i + 1]), r, qd))

\* Series.mean(): skips missing values, NaN when none is present
mean(frame, col) ==
    LET xs == Present(frame, col)
    IN  IF xs = <<>> THEN NaN ELSE Scale(Sum(xs), 1, Len(xs))

\* the labels of the model in the order groupby sorts them
LabelOrder == <<"Gear", "Operator", "Technician", "Valve">>

\* a group-by that lists every label, also those no row has
groupby_size_every_label(frame, col, name) ==
    LET Count(t) == Cardinality({i \in 1..Len(frame.rows) :
                                   frame.rows[i][col].k = "str"
                                     /\ frame.rows[i][col].s = t})
    IN  [columns |-> {col, name},
         rows |-> [i \in 1..Len(LabelOrder) |->
                     ("index" :> Num(i - 1)) @@ (col :> Str(LabelOrder[i]))
                       @@ (name :> Num(Count(LabelOrder[i])))]]

\* a group-by that counts each key once, however many rows have it
groupby_size_once(frame, col, name) ==
    LET Has(t) == \E i \in 1..Len(frame.rows) :
                     frame.rows[i][col].k = "str" /\ frame.rows[i][col].s = t
        keys == SelectSeq(LabelOrder, Has)
    IN  [columns |-> {col, name},
         rows |-> [i \in 1..Len(keys) |->
                     ("index" :> Num(i - 1)) @@ (col :> Str(keys[i]))
                       @@ (name :> Num(1))]]

\* frame.groupby(col).size().reset_index(name=name): one row per present
\* key, keys sorted, rows with a missing key left out
groupby_size(frame, col, name) ==
    LET Count(t) == Cardinality({i \in 1..Len(frame.rows) :
                                   eq_str(frame.rows[i][col], t)})
        keys == SelectSeq(LabelOrder, LAMBDA t : Count(t) > 0)
    IN  [columns |-> {col, name},
         rows |-> [i \in 1..Len(keys) |->
                     ("index" :> Num(i - 1)) @@ (col :> Str(keys[i]))
                       @@ (name :> Num(Count(keys[i])))]]

\* f"{x:.2f}": the value in hundredths, rounded half to even; "nan" stays
Format2f(c) ==
    IF isna(c) THEN c
    ELSE LET fl == (100 * c.n) \div c.d
             rem2 == 2 * (100 * c.n - fl * c.d)
         IN  [k |-> "fmt",
              n |-> IF rem2 > c.d \/ (rem2 = c.d /\ fl % 2 = 1) THEN fl + 1
                    ELSE fl,
              d |-> 100, s |-> ""]

industry_avg_processing_time == 150
industry_avg_delay == 20

(***************************************************************************)
(* The spreadsheets the script is run on.  Every table varies one group    *)
(* of columns and leaves the others at a default value.                    *)
(***************************************************************************)
DefaultRow ==
    [c \in InputColumns |->
        CASE c = "Start_Time" -> Ts(0)
          [] c = "End_Time" -> Ts(90)
          [] c = "Cost (USD)" -> Num(1)
          [] c = "Delay (minutes)" -> Num(0)
          [] c = "Rework_Flag" -> Str("No")
          [] c = "Issue_Flag" -> Str("No")
          [] c = "Role" -> Str("Operator")
          [] c = "Product_Category" -> Str("Gear")
          [] OTHER -> Str("X1")]

IdRows ==
    {[c \in {"Process_ID", "Task_ID", "Start_Time", "End_Time"} |->
         IF c \in M THEN NaN ELSE DefaultRow[c]] :
        M \in {{}, {"Process_ID"}, {"Task_ID"}, {"Start_Time"}, {"End_Time"},
               {"Process_ID", "Task_ID", "Start_Time", "End_Time"}}}

TimeRows ==
    {("Start_Time" :> s) @@ ("End_Time" :> e) :
        s \in {Str("TBD"), Str("1970-01-01 00:01:30"), Ts(0)},
        e \in {Str("TBD"), Ts(0), Ts(45)}}

CostRows ==
    {("Process_ID" :> p) @@ ("Cost (USD)" :> c) :
        p \in {NaN, Str("P1")}, c \in {NaN, Num(1), Num(2)}}

DelayRows ==
    {("Delay (minutes)" :> c) : c \in {NaN, Num(0), Num(1), Num(3)}}

ReworkRows ==
    {("Role" :> r) @@ ("Rework_Flag" :> f) :
        r \in {NaN, Str("Operator"), Str("Technician")},
        f \in {Str("Yes"), Str("No")}}

IssueRows ==
    {("Product_Category" :> c) @@ ("Issue_Flag" :> f) :
        c \in {NaN, Str("Gear"), Str("Valve")},
        f \in {Str("Yes"), Str("No")}}

MissingRows ==
    {("Resource" :> a) @@ ("Rework_Flag" :> f) @@ ("Issue_Flag" :> g) :
        a \in {NaN, Str("R1")}, f \in {NaN, Str("Yes")},
        g \in {NaN, Str("Yes")}}

\* the groups of rows and the longest sheet made of each
Families ==
    {[rows |-> IdRows, max |-> MaxRows],
     [rows |-> CostRows, max |-> MaxRows],
     [rows |-> ReworkRows, max |-> MaxRows],
     [rows |-> IssueRows, max |-> MaxRows],
     [rows |-> DelayRows, max |-> MaxDelayRows],
     [rows |-> TimeRows, max |-> MaxWideRows],
     [rows |-> MissingRows, max |-> MaxWideRows]}

\* the sheet of m rows whose i-th row is v[i], the other columns at default
Sheet(v, m) ==
    [columns |-> InputColumns,
     rows |-> [i \in 1..m |-> v[i] @@ ("index" :> Num(i - 1)) @@ DefaultRow]]

(***************************************************************************)
(* The script.                                                             *)
(***************************************************************************)
Script == <<"read_excel", "dropna", "fill_cost", "fill_resource",
            "start_time", "end_time", "duration", "delay_flag", "is_rework",
            "fig1", "fig2", "fig3", "fig4", "high_delay", "rework_tasks",
            "show_high_delay", "fig5", "fig6", "fig7", "metrics", "summary">>

Init ==
    /\ \E F \in Families : \E m \in 0..F.max : \E v \in [1..m -> F.rows] :
          file = Sheet(v, m)
    /\ data = NoFrame
    /\ pc = "read_excel"
    /\ reads = 0
    /\ high_delay = NoFrame
    /\ rework_tasks = NoFrame
    /\ rework_count = NoFrame
    /\ issue_flagged = NoFrame
    /\ issue_count = NoFrame
    /\ page = <<>>
    /\ ran = <<>>

\* one statement: control is at label and moves to next
Step(label, next) ==
    /\ pc = label
    /\ pc' = next
    /\ ran' = Append(ran, label)

Chart(el, cols) == [el |-> el, frame |-> Proj(data, cols)]

\* the load with the drop-nulls statement left out after it
ReadExcelSkipDropNa ==
    /\ Step("read_excel", "fill_cost")
    /\ data' = file
    /\ reads' = reads + 1
    /\ UNCHANGED <<file, high_delay, rework_tasks, rework_count,
                   issue_flagged, issue_count, page>>

ReadExcel ==
    /\ Step("read_excel", "dropna")
    /\ data' = file
    /\ reads' = reads + 1
    /\ UNCHANGED <<file, high_delay, rework_tasks, rework_count,
                   issue_flagged, issue_count, page>>

DropNa ==
    /\ Step("dropna", "fill_cost")
    /\ data' = dropna(data, {"Process_ID", "Task_ID", "Start_Time", "End_Time"})
    /\ UNCHANGED <<file, reads, high_delay, rework_tasks, rework_count,
                   issue_flagged, issue_count, page>>

FillCost ==
    /\ Step("fill_cost", "fill_resource")
    /\ data' = Assign(data, "Cost (USD)",
                      fillna(data, "Cost (USD)", median(data, "Cost (USD)")))
    /\ UNCHANGED <<file, reads, high_delay, rework_tasks, rework_count,
                   issue_flagged, issue_count, page>>

FillResource ==
    /\ Step("fill_resource", "start_time")
    /\ data' = Assign(data, "Resource",
                      fillna(data, "Resource", Str("Unknown")))
    /\ UNCHANGED <<file, reads, high_delay, rework_tasks, rework_count,
                   issue_flagged, issue_count, page>>

StartTime ==
    /\ Step("start_time", "end_time")
    /\ data' = Assign(data, "Start_Time",
                      [i \in 1..Len(data.rows) |->
                          to_datetime(data.rows[i]["Start_Time"])])
    /\ UNCHANGED <<file, reads, high_delay, rework_tasks, rework_count,
                   issue_flagged, issue_count, page>>

EndTime ==
    /\ Step("end_time", "duration")
    /\ data' = Assign(data, "End_Time",
                      [i \in 1..Len(data.rows) |->
                          to_datetime(data.rows[i]["End_Time"])])
    /\ UNCHANGED <<file, reads, high_delay, rework_tasks, rework_count,
                   issue_flagged, issue_count, page>>

Duration ==
    /\ Step("duration", "delay_flag")
    /\ data' = Assign(data, "Duration (minutes)",
                      [i \in 1..Len(data.rows) |->
                          total_minutes(data.rows[i]["End_Time"],
                                        data.rows[i]["Start_Time"])])
    /\ UNCHANGED <<file, reads, high_delay, rework_tasks, rework_count,
                   issue_flagged, issue_count, page>>

\* a delay flag that stays missing where the delay is missing
DelayFlagNullable ==
    /\ Step("delay_flag", "is_rework")
    /\ data' = Assign(data, "Delay_Flag",
                      [i \in 1..Len(data.rows) |->
                          IF isna(data.rows[i]["Delay (minutes)"]) THEN NaN
                          ELSE Bool(gt(data.rows[i]["Delay (minutes)"], Num(0)))])
    /\ UNCHANGED <<file, reads, high_delay, rework_tasks, rework_count,
                   issue_flagged, issue_count, page>>

DelayFlag ==
    /\ Step("delay_flag", "is_rework")
    /\ data' = Assign(data, "Delay_Flag",
                      [i \in 1..Len(data.rows) |->
                          Bool(gt(data.rows[i]["Delay (minutes)"], Num(0)))])
    /\ UNCHANGED <<file, reads, high_delay, rework_tasks, rework_count,
                   issue_flagged, issue_count, page>>

IsRework ==
    /\ Step("is_rework", "fig1")
    /\ data' = Assign(data, "Is_Rework",
                      [i \in 1..Len(data.rows) |->
                          Bool(eq_str(data.rows[i]["Rework_Flag"], "Yes"))])
    /\ UNCHANGED <<file, reads, high_delay, rework_tasks, rework_count,
                   issue_flagged, issue_count, page>>

Fig1 ==
    /\ Step("fig1", "fig2")
    /\ page' = Append(page, Chart("fig1", {"Duration (minutes)"}))
    /\ UNCHANGED <<file, data, reads, high_delay, rework_tasks, rework_count,
                   issue_flagged, issue_count>>

Fig2 ==
    /\ Step("fig2", "fig3")
    /\ page' = Append(page, Chart("fig2", {"Delay (minutes)"}))
    /\ UNCHANGED <<file, data, reads, high_delay, rework_tasks, rework_count,
                   issue_flagged, issue_count>>

Fig3 ==
    /\ Step("fig3", "fig4")
    /\ page' = Append(page, Chart("fig3", {"Role", "Duration (minutes)"}))
    /\ UNCHANGED <<file, data, reads, high_delay, rework_tasks, rework_count,
                   issue_flagged, issue_count>>

Fig4 ==
    /\ Step("fig4", "high_delay")
    /\ page' = Append(page, Chart("fig4", {"Cost (USD)"}))
    /\ UNCHANGED <<file, data, reads, high_delay, rework_tasks, rework_count,
                   issue_flagged, issue_count>>

HighDelay ==
    /\ Step("high_delay", "rework_tasks")
    /\ high_delay' =
         LET q == quantile(data, "Delay (minutes)", 3, 4)
         IN  Filter(data, [i \in 1..Len(data.rows) |->
                             ~isna(q) /\ gt(data.rows[i]["Delay (minutes)"], q)])
    /\ UNCHANGED <<file, data, reads, rework_tasks, rework_count,
                   issue_flagged, issue_count, page>>

\* a rework filter that also narrows the working table itself
ReworkTasksInPlace ==
    /\ Step("rework_tasks", "show_high_delay")
    /\ rework_tasks' = Filter(data, [i \in 1..Len(data.rows) |->
                                     data.rows[i]["Is_Rework"] = Bool(TRUE)])
    /\ data' = rework_tasks'
    /\ UNCHANGED <<file, reads, high_delay, rework_count,
                   issue_flagged, issue_count, page>>

ReworkTasks ==
    /\ Step("rework_tasks", "show_high_delay")
    /\ rework_tasks' = Filter(data, [i \in 1..Len(data.rows) |->
                                     data.rows[i]["Is_Rework"] = Bool(TRUE)])
    /\ UNCHANGED <<file, data, reads, high_delay, rework_count,
                   issue_flagged, issue_count, page>>

ShowHighDelay ==
    /\ Step("show_high_delay", "fig5")
    /\ page' = Append(page,
                 [el |-> "high_delay",
                  frame |-> Proj(high_delay,
                                 {"Process_ID", "Duration (minutes)",
                                  "Delay (minutes)", "Resource", "Role"})])
    /\ UNCHANGED <<file, data, reads, high_delay, rework_tasks, rework_count,
                   issue_flagged, issue_count>>

Fig5 ==
    /\ Step("fig5", "fig6")
    /\ rework_count' = groupby_size(rework_tasks, "Role", "Rework Count")
    /\ page' = Append(page, [el |-> "fig5", frame |-> rework_count'])
    /\ UNCHANGED <<file, data, reads, high_delay, rework_tasks,
                   issue_flagged, issue_count>>

Fig6 ==
    /\ Step("fig6", "fig7")
    /\ issue_flagged' = Filter(data, [i \in 1..Len(data.rows) |->
                                        eq_str(data.rows[i]["Issue_Flag"], "Yes")])
    /\ issue_count' = groupby_size(issue_flagged', "Product_Category",
                                   "Issue Count")
    /\ page' = Append(page, [el |-> "fig6", frame |-> issue_count'])
    /\ UNCHANGED <<file, data, reads, high_delay, rework_tasks, rework_count>>

Fig7 ==
    /\ Step("fig7", "metrics")
    /\ page' = Append(page, Chart("fig7", {"Duration (minutes)",
                                           "Delay (minutes)", "Cost (USD)"}))
    /\ UNCHANGED <<file, data, reads, high_delay, rework_tasks, rework_count,
                   issue_flagged, issue_count>>

Metric(el, avg, industry) ==
    [el |-> el,
     frame |-> [columns |-> {"value", "delta"},
                rows |-> <<[index |-> Num(0), value |-> Format2f(avg),
                            delta |-> IF isna(avg) THEN avg
                                      ELSE Format2f(Sub(avg, Num(industry)))]>>]]

Metrics ==
    /\ Step("metrics", "summary")
    /\ page' = page \o
         <<Metric("metric1", mean(data, "Duration (minutes)"),
                  industry_avg_processing_time),
           Metric("metric2", mean(data, "Delay (minutes)"),
                  industry_avg_delay)>>
    /\ UNCHANGED <<file, data, reads, high_delay, rework_tasks, rework_count,
                   issue_flagged, issue_count>>

Summary ==
    /\ Step("summary", "done")
    /\ UNCHANGED <<file, data, reads, high_delay, rework_tasks, rework_count,
                   issue_flagged, issue_count, page>>

Next ==
    \/ ReadExcel \/ DropNa \/ FillCost \/ FillResource
    \/ StartTime \/ EndTime \/ Duration \/ DelayFlag \/ IsRework
    \/ Fig1 \/ Fig2 \/ Fig3 \/ Fig4
    \/ HighDelay \/ ReworkTasks \/ ShowHighDelay
    \/ Fig5 \/ Fig6 \/ Fig7 \/ Metrics \/ Summary

Spec == Init /\ [][Next]_vars

(***************************************************************************)
(* Properties.                                                             *)
(***************************************************************************)
Ran(label) == \E i \in DOMAIN ran : ran[i] = label
Times(label) == Cardinality({i \in DOMAIN ran : ran[i] = label})
IsPrefix(xs, ys) == Len(xs) <= Len(ys) /\ \A i \in 1..Len(xs) : xs[i] = ys[i]
Rows == 1..Len(data.rows)
\* the spreadsheet row a row of the working table was loaded from
FileRow(r) == file.rows[r["index"].n + 1]
KeyColumns == {"Process_ID", "Task_ID", "Start_Time", "End_Time"}
Complete(r) == \A c \in KeyColumns : r[c].k \notin {"nan", "nat"}
DerivedColumns == {"Duration (minutes)", "Delay_Flag", "Is_Rework"}
RenderSteps == {"fig1", "fig2", "fig3", "fig4", "high_delay", "rework_tasks",
                "show_high_delay", "fig5", "fig6", "fig7", "metrics",
                "summary"}
Elements == <<"fig1", "fig2", "fig3", "fig4", "high_delay", "fig5", "fig6",
              "fig7", "metric1", "metric2">>

\* C1: a run goes load, clean, derive, render in this order: the statements
\* executed so far are always an initial part of the script, the spreadsheet
\* is read at most once and exactly once before anything else happens, no
\* column is derived before the incomplete rows are dropped, nothing is on
\* the page before every derived column exists, no statement runs twice,
\* and the run is over exactly when the whole script has run, with every
\* element rendered once.
C1_StageOrder ==
    /\ IsPrefix(ran, Script)
    /\ reads = Times("read_excel")
    /\ reads <= 1
    /\ (ran # <<>> => ran[1] = "read_excel" /\ reads = 1)
    /\ (data # NoFrame => reads = 1)
    /\ (DerivedColumns \cap data.columns # {} =>
          Ran("dropna") /\ \A i \in Rows : Complete(FileRow(data.rows[i])))
    /\ (page # <<>> => DerivedColumns \subseteq data.columns)
    /\ \A i \in 1..Len(Script) : Times(Script[i]) <= 1
    /\ (pc = "done" <=> ran = Script)
    /\ (pc = "done" => [i \in 1..Len(page) |-> page[i].el] = Elements)

C1_Witness ==
    /\ pc = "done"
    /\ Len(data.rows) >= 2
    /\ Len(data.rows) < Len(file.rows)
    /\ Len(page) = Len(Elements)

\* C2: right after the drop-nulls step the table holds exactly the loaded
\* rows whose Process_ID, Task_ID, Start_Time and End_Time are all present,
\* each unchanged, in their original relative order, and no other row; the
\* later steps keep this set of rows.
C2_DropNulls ==
    /\ (pc = "fill_cost" =>
          /\ \A i \in 1..Len(file.rows) :
                Complete(file.rows[i]) <=> file.rows[i] \in Range(data.rows)
          /\ \A j \in Rows : data.rows[j] \in Range(file.rows)
          /\ \A j, l \in Rows :
                j < l => data.rows[j]["index"].n < data.rows[l]["index"].n)
    /\ (Ran("dropna") =>
          {data.rows[j]["index"].n + 1 : j \in Rows}
            = {i \in 1..Len(file.rows) : Complete(file.rows[i])})

C2_Witness ==
    /\ pc = "fill_cost"
    /\ Len(file.rows) = 3
    /\ Len(data.rows) = 2
    /\ ~Complete(file.rows[2])

\* the costs of the kept rows as they were loaded
RawCost(i) == FileRow(data.rows[i])["Cost (USD)"]
Costed == {i \in Rows : RawCost(i).k = "num"}
\* m is the median of the loaded costs of the kept rows: fewer than half of
\* them lie on either side of m when m is one of them, and otherwise m is
\* half-way between the two middle ones
IsMedianCost(m) ==
    LET below == Cardinality({i \in Costed : Lt(RawCost(i), m)})
        above == Cardinality({i \in Costed : Lt(m, RawCost(i))})
        n == Cardinality(Costed)
    IN  /\ m.k = "num"
        /\ \/ /\ \E i \in Costed : ~Lt(RawCost(i), m) /\ ~Lt(m, RawCost(i))
              /\ 2 * below < n
              /\ 2 * above < n
           \/ /\ 2 * below = n
              /\ 2 * above = n
              /\ \E i, j \in Costed :
                    /\ Lt(RawCost(i), m) /\ Lt(m, RawCost(j))
                    /\ 2 * m.n * RawCost(i).d * RawCost(j).d
                         = m.d * (RawCost(i).n * RawCost(j).d
                                    + RawCost(j).n * RawCost(i).d)
                    /\ \A l \in Costed :
                          ~(Lt(RawCost(i), RawCost(l))
                              /\ Lt(RawCost(l), RawCost(j)))

\* C3 as stated: after the cleaning step no cost is missing, every missing
\* cost holds the median of the present costs of the kept rows and every
\* present cost is kept, for every input table.
C3_NoMissingCost ==
    Ran("fill_cost") =>
        \A i \in Rows :
            /\ ~isna(data.rows[i]["Cost (USD)"])
            /\ (RawCost(i).k = "num" => data.rows[i]["Cost (USD)"] = RawCost(i))
            /\ (isna(RawCost(i)) => IsMedianCost(data.rows[i]["Cost (USD)"]))

\* C3 (amended): after the cleaning step every present cost is kept; when at
\* least one kept row has a cost, every missing cost holds the median of the
\* present costs of the kept rows and no cost is missing; when no kept row
\* has a cost, every cost stays missing.
C3_MedianFill ==
    Ran("fill_cost") =>
        \A i \in Rows :
            /\ (RawCost(i).k = "num" => data.rows[i]["Cost (USD)"] = RawCost(i))
            /\ (isna(RawCost(i)) /\ Costed # {} =>
                  IsMedianCost(data.rows[i]["Cost (USD)"]))
            /\ (Costed = {} => isna(data.rows[i]["Cost (USD)"]))
            /\ (Costed # {} => ~isna(data.rows[i]["Cost (USD)"]))

C3_Witness ==
    /\ pc = "fill_resource"
    /\ \E i \in Rows, j \in 1..Len(file.rows) :
          /\ isna(RawCost(i))
          /\ ~Complete(file.rows[j])
          /\ file.rows[j]["Cost (USD)"].k = "num"
          /\ Lt(data.rows[i]["Cost (USD)"], file.rows[j]["Cost (USD)"])

\* C4: in every row Duration (minutes) is that row's End_Time minus its
\* Start_Time in seconds, divided by 60: sixty times the duration is the
\* difference of the two timestamps, it is negative when End_Time is the
\* earlier one, and it is missing when a timestamp is.
C4_Duration ==
    Ran("duration") =>
        \A i \in Rows :
            LET r == data.rows[i]
                dur == r["Duration (minutes)"]
            IN  IF r["End_Time"].k = "ts" /\ r["Start_Time"].k = "ts"
                THEN /\ dur.k = "num"
                     /\ 60 * dur.n = (r["End_Time"].n - r["Start_Time"].n) * dur.d
                     /\ dur.d > 0
                     /\ (r["End_Time"].n < r["Start_Time"].n => dur.n < 0)
                ELSE isna(dur)

C4_Witness ==
    /\ pc = "done"
    /\ \E i, j \in Rows :
          /\ data.rows[i]["Duration (minutes)"].n < 0
          /\ data.rows[i]["Duration (minutes)"].d = 4
          /\ data.rows[j]["Duration (minutes)"] = Frac(3, 4)

\* the delays of the working table
DelayOf(i) == data.rows[i]["Delay (minutes)"]
Delayed == {i \in Rows : DelayOf(i).k = "num"}
\* the k-th smallest of the present delays (whole minutes in the sheets)
KthDelay(k) ==
    CHOOSE v \in {DelayOf(i).n : i \in Delayed} :
        /\ Cardinality({i \in Delayed : DelayOf(i).n < v}) < k
        /\ k <= Cardinality({i \in Delayed : DelayOf(i).n <= v})
\* four times the 0.75 quantile of the present delays
Threshold4 ==
    LET n == Cardinality(Delayed)
        i == (3 * (n - 1)) \div 4
        r == (3 * (n - 1)) % 4
    IN  IF n = 0 THEN 0
        ELSE IF r = 0 THEN 4 * KthDelay(i + 1)
        ELSE 4 * KthDelay(i + 1) + r * (KthDelay(i + 2) - KthDelay(i + 1))

\* C5: the High Delay Tasks table holds exactly the rows whose delay is
\* strictly above the 0.75 quantile of the present delays; a row at the
\* threshold or without a delay is not listed, the table is empty when all
\* delays are equal, and it never holds every row of a non-empty table.
C5_HighDelay ==
    Ran("high_delay") =>
        LET t == Threshold4
            High == {i \in Delayed : 4 * DelayOf(i).n > t}
        IN  /\ \A i \in Rows :
                  i \in High <=> \E j \in 1..Len(high_delay.rows) :
                                     high_delay.rows[j] = data.rows[i]
            /\ \A j \in 1..Len(high_delay.rows) :
                  \E i \in Rows : high_delay.rows[j] = data.rows[i]
            /\ Len(high_delay.rows) = Cardinality(High)
            /\ \A i \in Rows :
                  isna(DelayOf(i)) \/ 4 * DelayOf(i).n = t => i \notin High
            /\ ((\A i, j \in Delayed : DelayOf(i) = DelayOf(j)) =>
                  high_delay.rows = <<>>)
            /\ (data.rows # <<>> => Len(high_delay.rows) < Len(data.rows))
            /\ (Ran("show_high_delay") =>
                  \E e \in Range(page) :
                      /\ e.el = "high_delay"
                      /\ {r["index"].n : r \in Range(e.frame.rows)}
                           = {data.rows[i]["index"].n : i \in High})

C5_Witness ==
    /\ pc = "done"
    /\ Len(high_delay.rows) = 1
    /\ Cardinality(Delayed) = 3
    /\ Threshold4 % 4 # 0
    /\ \E i \in Rows : isna(DelayOf(i))
    /\ \E i \in Delayed : 4 * DelayOf(i).n < Threshold4

\* the rows of the working table with the given role and a rework flag "Yes"
ReworkOf(t) ==
    {i \in Rows : data.rows[i]["Role"] = Str(t)
                    /\ data.rows[i]["Rework_Flag"] = Str("Yes")}
RolesOf == {data.rows[i]["Role"].s : i \in {j \in Rows : data.rows[j]["Role"].k = "str"}}
ListedRole(t) ==
    {j \in 1..Len(rework_count.rows) : rework_count.rows[j]["Role"] = Str(t)}

\* C6: in the Rework Count by Role table a role with at least one "Yes" row
\* is listed exactly once, with the number of rows of that role whose
\* Rework_Flag is "Yes"; a role with no such row is not listed, and every
\* listed count is at least 1.
C6_ReworkCount ==
    Ran("fig5") =>
        /\ \A t \in RolesOf :
              /\ (ReworkOf(t) # {} => Cardinality(ListedRole(t)) = 1)
              /\ (ReworkOf(t) = {} => ListedRole(t) = {})
              /\ \A j \in ListedRole(t) :
                    rework_count.rows[j]["Rework Count"]
                      = Num(Cardinality(ReworkOf(t)))
        /\ \A j \in 1..Len(rework_count.rows) :
              /\ rework_count.rows[j]["Role"].k = "str"
              /\ rework_count.rows[j]["Role"].s \in RolesOf
              /\ rework_count.rows[j]["Rework Count"].k = "num"
              /\ rework_count.rows[j]["Rework Count"].d = 1
              /\ rework_count.rows[j]["Rework Count"].n >= 1

C6_Witness ==
    /\ pc = "done"
    /\ Len(rework_count.rows) = 1
    /\ rework_count.rows[1]["Rework Count"] = Num(2)
    /\ Cardinality(RolesOf) = 2

\* C7 as stated: at render time Delay_Flag, Is_Rework and Issue_Flag hold a
\* boolean in every row.
C7_ThreeBooleanFlags ==
    Ran("is_rework") =>
        \A i \in Rows : \A c \in {"Delay_Flag", "Is_Rework", "Issue_Flag"} :
            data.rows[i][c].k = "bool"

\* C7 (amended): at render time Delay_Flag and Is_Rework hold a boolean in
\* every row, false where the delay or the rework flag is missing; Issue_Flag
\* is never converted and holds the loaded text or stays missing, and the
\* issue-flagged rows are those whose Issue_Flag is the text "Yes".
C7_BooleanFlags ==
    /\ (Ran("is_rework") =>
          \A i \in Rows :
              LET r == data.rows[i]
              IN  /\ r["Delay_Flag"].k = "bool"
                  /\ r["Is_Rework"].k = "bool"
                  /\ (isna(r["Delay (minutes)"]) => r["Delay_Flag"] = Bool(FALSE))
                  /\ (isna(r["Rework_Flag"]) => r["Is_Rework"] = Bool(FALSE))
                  /\ r["Issue_Flag"] = FileRow(r)["Issue_Flag"]
                  /\ r["Issue_Flag"].k \in {"str", "nan"})
    /\ (Ran("fig6") =>
          \A i \in Rows :
              data.rows[i] \in Range(issue_flagged.rows)
                <=> data.rows[i]["Issue_Flag"] = Str("Yes"))

C7_Witness ==
    /\ pc = "done"
    /\ \E i, j \in Rows :
          /\ isna(data.rows[i]["Issue_Flag"])
          /\ data.rows[j]["Issue_Flag"] = Str("Yes")
          /\ data.rows[j] \in Range(issue_flagged.rows)

\* C8: from the first render to the end of the run no step changes the
\* working table, every chart on the page shows the columns of that final
\* table, and the filtered subsets are values of their own.
C8_RenderFrame ==
    /\ [][(pc \in RenderSteps) => (data' = data)]_vars
    /\ [](\A e \in Range(page) :
             e.el \in {"fig1", "fig2", "fig3", "fig4", "fig7"} =>
                 e.frame = Proj(data, e.frame.columns))
    /\ [](Ran("rework_tasks") =>
             /\ Range(high_delay.rows) \subseteq Range(data.rows)
             /\ Range(rework_tasks.rows) \subseteq Range(data.rows)
             /\ Len(data.rows) = Cardinality({FileRow(data.rows[i]) : i \in Rows}))

C8_Witness ==
    /\ pc = "done"
    /\ Len(data.rows) = 3
    /\ Len(rework_tasks.rows) = 1
    /\ Len(issue_flagged.rows) = 0

\* the loaded value of a timestamp can be read as a date and time
Parses(c) == c.k = "ts" \/ (c.k = "str" /\ ParseDatetime(c.s) >= 0)

\* C9 as stated: every row kept by the drop-nulls step has a present
\* Start_Time and End_Time after the conversion and a defined duration.
C9_KeptRowsHaveTimes ==
    /\ (Ran("start_time") => \A i \in Rows : ~isna(data.rows[i]["Start_Time"]))
    /\ (Ran("end_time") => \A i \in Rows : ~isna(data.rows[i]["End_Time"]))
    /\ (Ran("duration") =>
          \A i \in Rows : ~isna(data.rows[i]["Duration (minutes)"]))

\* C9 (amended): every row kept by the drop-nulls step was loaded with a
\* Start_Time and an End_Time; after the conversion a kept row's timestamp is
\* missing exactly when the loaded value is text that is no date, and its
\* duration is defined exactly when both timestamps are dates.
C9_CoercedTimes ==
    /\ (Ran("dropna") =>
          \A i \in Rows :
              /\ ~isna(FileRow(data.rows[i])["Start_Time"])
              /\ ~isna(FileRow(data.rows[i])["End_Time"]))
    /\ (Ran("start_time") =>
          \A i \in Rows :
              isna(data.rows[i]["Start_Time"])
                <=> ~Parses(FileRow(data.rows[i])["Start_Time"]))
    /\ (Ran("end_time") =>
          \A i \in Rows :
              isna(data.rows[i]["End_Time"])
                <=> ~Parses(FileRow(data.rows[i])["End_Time"]))
    /\ (Ran("duration") =>
          \A i \in Rows :
              isna(data.rows[i]["Duration (minutes)"])
                <=> ~(Parses(FileRow(data.rows[i])["Start_Time"])
                        /\ Parses(FileRow(data.rows[i])["End_Time"])))

C9_Witness ==
    /\ pc = "done"
    /\ \E i, j \in Rows :
          /\ FileRow(data.rows[i])["Start_Time"] = Str("TBD")
          /\ isna(data.rows[i]["Duration (minutes)"])
          /\ FileRow(data.rows[j])["Start_Time"].k = "str"
          /\ data.rows[j]["Duration (minutes)"].k = "num"

RECURSIVE Total(_, _)
Total(frame, col) ==
    IF frame.rows = <<>> THEN 0
    ELSE Head(frame.rows)[col].n
           + Total([frame EXCEPT !.rows = Tail(frame.rows)], col)
Flagged(col) == {i \in Rows : data.rows[i][col] = Str("Yes")}

\* C10 as stated: the issue counts add up to the number of rows whose
\* Issue_Flag is "Yes" and the rework counts to the number of rows whose
\* Rework_Flag is "Yes", for every input.
C10_CountsLoseNoRow ==
    /\ (Ran("fig5") =>
          Total(rework_count, "Rework Count") = Cardinality(Flagged("Rework_Flag")))
    /\ (Ran("fig6") =>
          Total(issue_count, "Issue Count") = Cardinality(Flagged("Issue_Flag")))

\* C10 (amended): the issue counts add up to the number of rows whose
\* Issue_Flag is "Yes" and whose Product_Category is present, and the rework
\* counts to the number of rows whose Rework_Flag is "Yes" and whose Role is
\* present; a flagged row with a missing Product_Category or Role is in no
\* count.
C10_CountsOfKeyedRows ==
    /\ (Ran("fig5") =>
          Total(rework_count, "Rework Count")
            = Cardinality({i \in Flagged("Rework_Flag") :
                             ~isna(data.rows[i]["Role"])}))
    /\ (Ran("fig6") =>
          Total(issue_count, "Issue Count")
            = Cardinality({i \in Flagged("Issue_Flag") :
                             ~isna(data.rows[i]["Product_Category"])}))

C10_Witness ==
    /\ pc = "done"
    /\ Total(issue_count, "Issue Count") = 2
    /\ Len(issue_count.rows) = 2
    /\ Cardinality(Flagged("Issue_Flag")) = 3

====
